---------------------------- MODULE Spec2Model ----------------------------
(***************************************************************************)
(* The textured-cube sample (src/src/pages/samples/texturedCube.ts) as a   *)
(* state machine: the asynchronous init(canvas, useWGSL), one step per     *)
(* statement group, and the synchronous frame() callback it returns, one   *)
(* step per call it makes.  Floating-point values are fixed-point integers *)
(* in units of 1/Scale.                                                    *)
(***************************************************************************)
EXTENDS Integers, Sequences, FiniteSets, TLC

(* ------------------------------ bounds -------------------------------- *)

\* frame() is called at most this many times
MaxFrames == 3
\* Date.now() / 1000 reads a value in 0..MaxTime
MaxTime == 2
\* the canvas's and the image's sides are in 1..MaxDim
MaxDim == 2

(* ------------------------- fixed-point numbers ------------------------ *)

Scale == 10 * 100

FMul(a, b) == (a * b) \div Scale

FDiv(a, b) == (a * Scale) \div b

Abs(a) == IF a < 0 THEN -a ELSE a

\* Math.hypot on fixed-point arguments: the integer square root
Hypot(x, y, z) ==
  LET s == x * x + y * y + z * z
  IN  CHOOSE n \in 0..(2 * Scale) : n * n <= s /\ s < (n + 1) * (n + 1)

\* Math.sin / Math.cos of the whole seconds 0..5, in units of 1/Scale
SinTable == <<0, 841, 909, 141, -757, -959>>
CosTable == <<1000, 540, -416, -990, -654, 284>>
Sin(t) == SinTable[t + 1]
Cos(t) == CosTable[t + 1]

Times == 0..MaxTime

(* ------------------------------ gl-matrix ----------------------------- *)
\* A mat4 is a Float32Array of 16 elements in column-major order; element
\* i of the array is m[i + 1].

Float32Bytes == 4

Mat4Length == 16

\* mat4.create(): the identity
Mat4Create ==
  [n \in 1..Mat4Length |-> IF (n - 1) % 5 = 0 THEN Scale ELSE 0]

\* 1 / tan(fovy / 2) for fovy = 2 * PI / 5
FovF == 1376

\* mat4.perspective(out, fovy, aspect, near, far) with a finite far plane
Mat4Perspective(aspect, near, far) ==
  LET nf == near - far
  IN  [n \in 1..Mat4Length |->
         CASE n = 1  -> FDiv(FovF, aspect)
           [] n = 6  -> FovF
           [] n = 11 -> ((far + near) * Scale) \div nf
           [] n = 12 -> -Scale
           [] n = 15 -> (2 * far * near * Scale) \div nf
           [] OTHER  -> 0]

\* mat4.translate(out, a, v), v in whole units
Mat4Translate(a, v) ==
  [n \in 1..Mat4Length |->
     IF n <= 12 THEN a[n]
     ELSE LET i == n - 12
          IN  a[i] * v[1] + a[4 + i] * v[2] + a[8 + i] * v[3] + a[12 + i]]

\* mat4.rotate(out, a, rad, axis) for rad = 1: s = sin(1), c = cos(1)
Mat4Rotate(a, axis) ==
  LET len == Hypot(axis[1], axis[2], axis[3])
      x == FDiv(axis[1], len)
      y == FDiv(axis[2], len)
      z == FDiv(axis[3], len)
      s == Sin(1)
      c == Cos(1)
      t == Scale - c
      b00 == FMul(FMul(x, x), t) + c
      b01 == FMul(FMul(y, x), t) + FMul(z, s)
      b02 == FMul(FMul(z, x), t) - FMul(y, s)
      b10 == FMul(FMul(x, y), t) - FMul(z, s)
      b11 == FMul(FMul(y, y), t) + c
      b12 == FMul(FMul(z, y), t) + FMul(x, s)
      b20 == FMul(FMul(x, z), t) + FMul(y, s)
      b21 == FMul(FMul(y, z), t) - FMul(x, s)
      b22 == FMul(FMul(z, z), t) + c
  IN  [n \in 1..Mat4Length |->
         CASE n <= 4  -> FMul(a[n], b00) + FMul(a[n + 4], b01)
                           + FMul(a[n + 8], b02)
           [] n <= 8  -> FMul(a[n - 4], b10) + FMul(a[n], b11)
                           + FMul(a[n + 4], b12)
           [] n <= 12 -> FMul(a[n - 8], b20) + FMul(a[n - 4], b21)
                           + FMul(a[n], b22)
           [] OTHER   -> a[n]]

\* mat4.multiply(out, a, b): the product a * b
Mat4Multiply(a, b) ==
  [n \in 1..Mat4Length |->
     LET col == (n - 1) \div 4
         row == (n - 1) % 4
     IN  FMul(a[row + 1], b[col * 4 + 1])
           + FMul(a[4 + row + 1], b[col * 4 + 2])
           + FMul(a[8 + row + 1], b[col * 4 + 3])
           + FMul(a[12 + row + 1], b[col * 4 + 4])]

\* matrix * column vector, as both shading languages define mat4 * vec4
Mat4TimesVec4(m, v) ==
  [row \in 1..4 |->
     FMul(m[row], v[1]) + FMul(m[4 + row], v[2])
       + FMul(m[8 + row], v[3]) + FMul(m[12 + row], v[4])]

(* ------------------------- ../../meshes/cube ------------------------- *)
\* The mesh module is imported (lines 3-8); its values follow the
\* specification: 36 vertices of position (4 x float32) then UV (2 x float32).

cubeVertexCount == 36

cubePositionOffset == 0

cubeUVOffset == 4 * Float32Bytes

cubeVertexSize == 6 * Float32Bytes

\* float c (0..5) of vertex v: a corner of the unit cube, w = 1, then u, v
CubeFloat(v, c) ==
  CASE c = 0 -> IF v % 2 = 0 THEN -Scale ELSE Scale
    [] c = 1 -> IF (v \div 2) % 2 = 0 THEN -Scale ELSE Scale
    [] c = 2 -> IF (v \div 4) % 2 = 0 THEN -Scale ELSE Scale
    [] c = 3 -> Scale
    [] c = 4 -> IF v % 2 = 0 THEN 0 ELSE Scale
    [] OTHER -> IF (v \div 2) % 2 = 0 THEN 0 ELSE Scale

cubeVertexArray ==
  [n \in 1..(cubeVertexCount * 6) |-> CubeFloat((n - 1) \div 6, (n - 1) % 6)]

ByteLength(floats) == Len(floats) * Float32Bytes

(* ------------------------------ shaders ------------------------------- *)
\* A vertex stage maps the uniform matrix and the inputs by location
\* (in[1] is location 0, in[2] is location 1) to the built-in position and
\* the outputs by location (out[1] is location 0, out[2] is location 1).
\* A fragment stage maps the bound image and its inputs by location to the
\* outputs by location.

Vec4Splat(a) == <<a, a, a, a>>

Vec4Add(a, b) == [k \in 1..4 |-> a[k] + b[k]]

Vec4Mul(a, b) == [k \in 1..4 |-> FMul(a[k], b[k])]

Vec4Scale(s, a) == [k \in 1..4 |-> FMul(s, a[k])]

Half == Scale \div 2

\* the decoded image: width x height RGBA pixels, a two-colour checkerboard
Texels == <<<<Scale, Half, 0, Scale>>, <<0, Half, Scale, Scale>>>>

ImagePixels(width, height) ==
  [p \in (0..(width - 1)) \X (0..(height - 1)) |->
     Texels[((p[1] + p[2]) % 2) + 1]]

Min(a, b) == IF a < b THEN a ELSE b

\* sampling an image at a UV in [0, 1]^2: the texel the UV falls in
TextureSample(image, uv) ==
  image.pixels[<<Min(FMul(uv[1], image.width), image.width - 1),
                 Min(FMul(uv[2], image.height), image.height - 1)>>]

\* glslShaders.vertex: the layout qualifiers of its interface
GlslVertexInterface ==
  [uniforms |-> {[set |-> 0, binding |-> 0, kind |-> "uniform"]},
   in  |-> {[location |-> 0, name |-> "position"],
            [location |-> 1, name |-> "uv"]},
   out |-> {[location |-> 0, name |-> "fragUV"],
            [location |-> 1, name |-> "fragPosition"]}]

\* glslShaders.vertex: main()
GlslVertexMain(modelViewProjectionMatrix, in) ==
  LET position == in[1]
      uv == in[2]
      fragPosition == Vec4Scale(Half, Vec4Add(position, Vec4Splat(Scale)))
      gl_Position == Mat4TimesVec4(modelViewProjectionMatrix, position)
      fragUV == uv
  IN  [position |-> gl_Position, out |-> <<fragUV, fragPosition>>]

\* glslShaders.fragment: the layout qualifiers of its interface
GlslFragmentInterface ==
  [uniforms |-> {[set |-> 0, binding |-> 1, kind |-> "sampler"],
                 [set |-> 0, binding |-> 2, kind |-> "texture"]},
   in  |-> {[location |-> 0, name |-> "fragUV"],
            [location |-> 1, name |-> "fragPosition"]},
   out |-> {[location |-> 0, name |-> "outColor"]}]

\* glslShaders.fragment: main()
GlslFragmentMain(myTexture, in) ==
  LET fragUV == in[1]
      fragPosition == in[2]
      outColor == Vec4Mul(TextureSample(myTexture, fragUV), fragPosition)
  IN  [out |-> <<outColor>>]

\* wgslShaders.vertex: the binding and location attributes
WgslVertexInterface ==
  [uniforms |-> {[set |-> 0, binding |-> 0, kind |-> "uniform"]},
   in  |-> {[location |-> 0, name |-> "position"],
            [location |-> 1, name |-> "uv"]},
   out |-> {[location |-> 0, name |-> "fragUV"],
            [location |-> 1, name |-> "fragPosition"]}]

\* a variant of WgslVertexMain: 0.5 * position + 1
WgslVertexMainUnparenthesised(modelViewProjectionMatrix, in) ==
  LET position == in[1]
      uv == in[2]
      fragPosition ==
        Vec4Add(Vec4Scale(Half, position), <<Scale, Scale, Scale, Scale>>)
      Position == Mat4TimesVec4(modelViewProjectionMatrix, position)
      fragUV == uv
  IN  [position |-> Position, out |-> <<fragUV, fragPosition>>]

\* wgslShaders.vertex: main()
WgslVertexMain(modelViewProjectionMatrix, in) ==
  LET position == in[1]
      uv == in[2]
      fragPosition ==
        Vec4Scale(Half, Vec4Add(position, <<Scale, Scale, Scale, Scale>>))
      Position == Mat4TimesVec4(modelViewProjectionMatrix, position)
      fragUV == uv
  IN  [position |-> Position, out |-> <<fragUV, fragPosition>>]

\* wgslShaders.fragment: the binding and location attributes
WgslFragmentInterface ==
  [uniforms |-> {[set |-> 0, binding |-> 1, kind |-> "sampler"],
                 [set |-> 0, binding |-> 2, kind |-> "texture"]},
   in  |-> {[location |-> 0, name |-> "fragUV"],
            [location |-> 1, name |-> "fragPosition"]},
   out |-> {[location |-> 0, name |-> "outColor"]}]

\* wgslShaders.fragment: main()
WgslFragmentMain(myTexture, in) ==
  LET fragUV == in[1]
      fragPosition == in[2]
      outColor == Vec4Mul(TextureSample(myTexture, fragUV), fragPosition)
  IN  [out |-> <<outColor>>]

VertexMain(dialect, m, in) ==
  IF dialect = "wgsl" THEN WgslVertexMain(m, in) ELSE GlslVertexMain(m, in)

FragmentMain(dialect, myTexture, in) ==
  IF dialect = "wgsl" THEN WgslFragmentMain(myTexture, in)
  ELSE GlslFragmentMain(myTexture, in)

(* ------------------------------- state -------------------------------- *)

VARIABLES
  useWGSL,              \* init's parameter
  canvas,               \* init's parameter: [width, height]
  pc,                   \* init's position, "ready" once it has returned
  initLog,              \* the steps init has run, in order
  failures,             \* the failures the environment has injected
  objs,                 \* the objects init holds, by the name of its const
  created,              \* how many times each object has been constructed
  nextId,               \* the identity the next constructed object gets
  aspect,               \* const aspect
  projectionMatrix,     \* const projectionMatrix (a mutable Float32Array)
  verticesData,         \* the contents of verticesBuffer, as floats
  renderPassDescriptor, \* const renderPassDescriptor (a mutable object)
  uniformData,          \* the contents of uniformBuffer, as bytes
  image,                \* the decoded imageBitmap, then cubeTexture's contents
  frameCallback,        \* TRUE once init has returned frame
  framePc,              \* frame's position, "idle" between calls
  now,                  \* const now of the running frame call
  transformationMatrix, \* const transformationMatrix of the running call
  pass,                 \* the command encoder and its render pass
  frameLog,             \* the calls the running (or last) frame made, in order
  counts,               \* calls so far: frames, writes, draws, submits
  uniformStamp,         \* per byte of uniformBuffer, the frame that wrote it
  attachments,          \* what the last executed pass stored
  shaded                \* one vertex and fragment of the running call's pass

initVars == <<useWGSL, canvas, pc, initLog, failures, objs, created, nextId,
              aspect, projectionMatrix, verticesData, image, frameCallback>>

frameVars == <<framePc, now, transformationMatrix, pass, frameLog, counts,
               uniformStamp, attachments, shaded>>

vars == <<initVars, renderPassDescriptor, uniformData, frameVars>>

ObjNames ==
  {"adapter", "device", "glslang", "context", "swapChain", "verticesBuffer",
   "bindGroupLayout", "pipelineLayout", "vertexModule", "fragmentModule",
   "pipeline", "depthTexture", "depthView", "uniformBuffer", "cubeTexture",
   "sampler", "cubeView", "uniformBindGroup"}

\* no object: null, undefined or not yet assigned
NoObj == [id |-> 0]

Undefined == NoObj

NoPass ==
  [state |-> "none", colorAttachment |-> Undefined, depthAttachment |-> 0,
   pipeline |-> 0, bindGroup |-> 0, vertexBuffer |-> 0, draws |-> <<>>]

Init ==
  /\ useWGSL \in BOOLEAN
  /\ canvas \in [width : 1..MaxDim, height : 1..MaxDim]
  /\ pc = "requestAdapter"
  /\ initLog = <<>>
  /\ failures = {}
  /\ objs = [n \in ObjNames |-> NoObj]
  /\ created = [n \in ObjNames |-> 0]
  /\ nextId = 1
  /\ aspect = 0
  /\ projectionMatrix = <<>>
  /\ verticesData = <<>>
  /\ renderPassDescriptor = NoObj
  /\ uniformData = <<>>
  /\ image = NoObj
  /\ frameCallback = FALSE
  /\ framePc = "idle"
  /\ now = 0
  /\ transformationMatrix = <<>>
  /\ pass = NoPass
  /\ frameLog = <<>>
  /\ counts = [frames |-> 0, writes |-> 0, draws |-> 0, submits |-> 0]
  /\ uniformStamp = <<>>
  /\ attachments = [depth |-> 0, color |-> 0]
  /\ shaded = NoObj

(* -------------------------------- init -------------------------------- *)

\* init runs the statement group `from` and goes on to `to`
Step(from, to) ==
  /\ pc = from
  /\ pc' = to
  /\ initLog' = Append(initLog, from)

\* the statement group `from` throws, or the promise it awaits rejects:
\* init's promise rejects and nothing after `from` runs
Reject(from, kind) ==
  /\ pc = from
  /\ pc' = "rejected"
  /\ initLog' = Append(initLog, from)
  /\ failures' = failures \cup {kind}

\* the objects news[1], news[2], ... (each <<name, descriptor>>) constructed
\* in this order
Create(news) ==
  /\ objs' = [n \in ObjNames |->
                IF \E k \in 1..Len(news) : news[k][1] = n
                THEN LET k == CHOOSE j \in 1..Len(news) : news[j][1] = n
                     IN  [id |-> nextId + k - 1] @@ news[k][2]
                ELSE objs[n]]
  /\ created' = [n \in ObjNames |->
                   created[n] + Cardinality({k \in 1..Len(news) : news[k][1] = n})]
  /\ nextId' = nextId + Len(news)

NoCreate == UNCHANGED <<objs, created, nextId>>

\* line 12: await navigator.gpu.requestAdapter() resolves with an adapter
RequestAdapter ==
  /\ Step("requestAdapter", "requestDevice")
  /\ Create(<<<<"adapter", [kind |-> "GPUAdapter"]>>>>)
  /\ UNCHANGED <<useWGSL, canvas, failures, aspect, projectionMatrix,
                 verticesData, image, frameCallback, renderPassDescriptor,
                 uniformData, frameVars>>

\* line 12: it resolves with null
RequestAdapterNull ==
  /\ Step("requestAdapter", "requestDevice")
  /\ failures' = failures \cup {"noAdapter"}
  /\ NoCreate
  /\ UNCHANGED <<useWGSL, canvas, aspect, projectionMatrix, verticesData,
                 image, frameCallback, renderPassDescriptor, uniformData,
                 frameVars>>

\* line 13: adapter.requestDevice() on null throws a TypeError
RequestDeviceOfNull ==
  /\ objs["adapter"] = NoObj
  /\ Reject("requestDevice", "noAdapter")
  /\ NoCreate
  /\ UNCHANGED <<useWGSL, canvas, aspect, projectionMatrix, verticesData,
                 image, frameCallback, renderPassDescriptor, uniformData,
                 frameVars>>

\* line 13: await adapter.requestDevice() resolves
RequestDevice ==
  /\ objs["adapter"] # NoObj
  /\ Step("requestDevice", "glslangModule")
  /\ Create(<<<<"device", [kind |-> "GPUDevice",
                           adapter |-> objs["adapter"].id]>>>>)
  /\ UNCHANGED <<useWGSL, canvas, failures, aspect, projectionMatrix,
                 verticesData, image, frameCallback, renderPassDescriptor,
                 uniformData, frameVars>>

\* line 13: it rejects
RequestDeviceRejects ==
  /\ objs["adapter"] # NoObj
  /\ Reject("requestDevice", "requestDevice")
  /\ NoCreate
  /\ UNCHANGED <<useWGSL, canvas, aspect, projectionMatrix, verticesData,
                 image, frameCallback, renderPassDescriptor, uniformData,
                 frameVars>>

\* line 14: await glslangModule() resolves (awaited for both dialects)
GlslangModule ==
  /\ Step("glslangModule", "projectionMatrix")
  /\ Create(<<<<"glslang", [kind |-> "glslang"]>>>>)
  /\ UNCHANGED <<useWGSL, canvas, failures, aspect, projectionMatrix,
                 verticesData, image, frameCallback, renderPassDescriptor,
                 uniformData, frameVars>>

\* line 14: it rejects
GlslangModuleRejects ==
  /\ Reject("glslangModule", "glslangModule")
  /\ NoCreate
  /\ UNCHANGED <<useWGSL, canvas, aspect, projectionMatrix, verticesData,
                 image, frameCallback, renderPassDescriptor, uniformData,
                 frameVars>>

\* lines 16-18: aspect and the projection matrix
ProjectionMatrix ==
  /\ Step("projectionMatrix", "configureSwapChain")
  /\ aspect' = Abs(FDiv(canvas.width * Scale, canvas.height * Scale))
  /\ projectionMatrix' = Mat4Perspective(aspect', 1, 100)
  /\ NoCreate
  /\ UNCHANGED <<useWGSL, canvas, failures, verticesData, image,
                 frameCallback, renderPassDescriptor, uniformData, frameVars>>

\* lines 20-25: the context and the swap chain
ConfigureSwapChain ==
  /\ Step("configureSwapChain", "verticesBuffer")
  /\ Create(<<<<"context", [kind |-> "gpupresent"]>>,
              <<"swapChain", [device |-> objs["device"].id,
                              format |-> "bgra8unorm"]>>>>)
  /\ UNCHANGED <<useWGSL, canvas, failures, aspect, projectionMatrix,
                 verticesData, image, frameCallback, renderPassDescriptor,
                 uniformData, frameVars>>

\* a variant of VerticesBufferSize: the length in floats for the byte length
VerticesBufferSizeInFloats == Len(cubeVertexArray)

\* line 28: the size verticesBuffer is created with
VerticesBufferSize == ByteLength(cubeVertexArray)

\* lines 27-33: the vertex buffer, created mapped, filled and unmapped.
\* Float32Array.prototype.set throws a RangeError when the source is longer
\* than the mapped range.
VerticesBuffer ==
  /\ pc = "verticesBuffer"
  /\ initLog' = Append(initLog, "verticesBuffer")
  /\ LET fits == Len(cubeVertexArray) <= VerticesBufferSize \div Float32Bytes
     IN  /\ Create(<<<<"verticesBuffer",
                       [size |-> VerticesBufferSize, usage |-> {"VERTEX"},
                        mapState |-> IF fits THEN "unmapped" ELSE "mapped"]>>>>)
         /\ verticesData' =
              IF fits
              THEN [n \in 1..(VerticesBufferSize \div Float32Bytes) |->
                      IF n <= Len(cubeVertexArray) THEN cubeVertexArray[n]
                      ELSE 0]
              ELSE [n \in 1..(VerticesBufferSize \div Float32Bytes) |-> 0]
         /\ pc' = IF fits THEN "bindGroupLayout" ELSE "rejected"
  /\ UNCHANGED <<useWGSL, canvas, failures, aspect, projectionMatrix, image,
                 frameCallback, renderPassDescriptor, uniformData, frameVars>>

\* lines 35-62: the bind group layout
BindGroupLayout ==
  /\ Step("bindGroupLayout", "pipelineLayout")
  /\ Create(<<<<"bindGroupLayout",
                [entries |->
                   {[binding |-> 0, visibility |-> "VERTEX", kind |-> "uniform"],
                    [binding |-> 1, visibility |-> "FRAGMENT", kind |-> "sampler"],
                    [binding |-> 2, visibility |-> "FRAGMENT", kind |-> "texture"]}]>>>>)
  /\ UNCHANGED <<useWGSL, canvas, failures, aspect, projectionMatrix,
                 verticesData, image, frameCallback, renderPassDescriptor,
                 uniformData, frameVars>>

\* lines 64-66: the pipeline layout
PipelineLayout ==
  /\ Step("pipelineLayout", "vertexModule")
  /\ Create(<<<<"pipelineLayout",
                [bindGroupLayouts |-> <<objs["bindGroupLayout"].id>>]>>>>)
  /\ UNCHANGED <<useWGSL, canvas, failures, aspect, projectionMatrix,
                 verticesData, image, frameCallback, renderPassDescriptor,
                 uniformData, frameVars>>

\* lines 72-79: the dialect table the vertex module's code is read from
VertexDialect == IF useWGSL THEN "wgsl" ELSE "glsl"

\* a variant of FragmentDialect: the flag is not consulted
FragmentDialectAlwaysGlsl == "glsl"

\* lines 102-109: the dialect table the fragment module's code is read from
FragmentDialect == IF useWGSL THEN "wgsl" ELSE "glsl"

\* lines 72-79: the vertex shader module compiles
VertexModule ==
  /\ Step("vertexModule", "fragmentModule")
  /\ Create(<<<<"vertexModule",
                [dialect |-> VertexDialect, stage |-> "vertex",
                 valid |-> TRUE]>>>>)
  /\ UNCHANGED <<useWGSL, canvas, failures, aspect, projectionMatrix,
                 verticesData, image, frameCallback, renderPassDescriptor,
                 uniformData, frameVars>>

\* lines 76-79: glslang.compileGLSL throws inside the transform, and so does
\* createShaderModule
VertexModuleGlslThrows ==
  /\ ~useWGSL
  /\ Reject("vertexModule", "glslCompile")
  /\ NoCreate
  /\ UNCHANGED <<useWGSL, canvas, aspect, projectionMatrix, verticesData,
                 image, frameCallback, renderPassDescriptor, uniformData,
                 frameVars>>

\* lines 73-75: the WGSL source does not compile.  createShaderModule does
\* not throw: it returns an invalid module and the device records the
\* error, which init neither awaits nor reads.
VertexModuleWgslInvalid ==
  /\ useWGSL
  /\ Step("vertexModule", "fragmentModule")
  /\ failures' = failures \cup {"wgslCompile"}
  /\ Create(<<<<"vertexModule",
                [dialect |-> VertexDialect, stage |-> "vertex",
                 valid |-> FALSE]>>>>)
  /\ UNCHANGED <<useWGSL, canvas, aspect, projectionMatrix, verticesData,
                 image, frameCallback, renderPassDescriptor, uniformData,
                 frameVars>>

\* lines 102-109: the fragment shader module compiles
FragmentModule ==
  /\ Step("fragmentModule", "pipeline")
  /\ Create(<<<<"fragmentModule",
                [dialect |-> FragmentDialect, stage |-> "fragment",
                 valid |-> TRUE]>>>>)
  /\ UNCHANGED <<useWGSL, canvas, failures, aspect, projectionMatrix,
                 verticesData, image, frameCallback, renderPassDescriptor,
                 uniformData, frameVars>>

\* lines 106-109: glslang.compileGLSL throws
FragmentModuleGlslThrows ==
  /\ ~useWGSL
  /\ Reject("fragmentModule", "glslCompile")
  /\ NoCreate
  /\ UNCHANGED <<useWGSL, canvas, aspect, projectionMatrix, verticesData,
                 image, frameCallback, renderPassDescriptor, uniformData,
                 frameVars>>

\* lines 103-105: the WGSL source does not compile
FragmentModuleWgslInvalid ==
  /\ useWGSL
  /\ Step("fragmentModule", "pipeline")
  /\ failures' = failures \cup {"wgslCompile"}
  /\ Create(<<<<"fragmentModule",
                [dialect |-> FragmentDialect, stage |-> "fragment",
                 valid |-> FALSE]>>>>)
  /\ UNCHANGED <<useWGSL, canvas, aspect, projectionMatrix, verticesData,
                 image, frameCallback, renderPassDescriptor, uniformData,
                 frameVars>>

\* lines 81-99: the vertex buffer layouts of the pipeline
PipelineVertexBuffers ==
  <<[arrayStride |-> cubeVertexSize,
     attributes |->
       <<[shaderLocation |-> 0, offset |-> cubePositionOffset,
          format |-> "float32x4"],
         [shaderLocation |-> 1, offset |-> cubeUVOffset,
          format |-> "float32x2"]>>]>>

\* lines 68-126: the render pipeline; it is valid when both modules are
Pipeline ==
  /\ Step("pipeline", "depthTexture")
  /\ Create(<<<<"pipeline",
                [layout |-> objs["pipelineLayout"].id,
                 vertex |-> [module |-> objs["vertexModule"].id,
                             dialect |-> objs["vertexModule"].dialect,
                             entryPoint |-> "main",
                             buffers |-> PipelineVertexBuffers],
                 fragment |-> [module |-> objs["fragmentModule"].id,
                               dialect |-> objs["fragmentModule"].dialect,
                               entryPoint |-> "main",
                               targets |-> <<[format |-> "bgra8unorm"]>>],
                 primitive |-> [topology |-> "triangle-list",
                                cullMode |-> "back"],
                 depthStencil |-> [depthWriteEnabled |-> TRUE,
                                   depthCompare |-> "less",
                                   format |-> "depth24plus-stencil8"],
                 valid |-> objs["vertexModule"].valid
                             /\ objs["fragmentModule"].valid]>>>>)
  /\ UNCHANGED <<useWGSL, canvas, failures, aspect, projectionMatrix,
                 verticesData, image, frameCallback, renderPassDescriptor,
                 uniformData, frameVars>>

\* lines 128-132: the depth texture
DepthTexture ==
  /\ Step("depthTexture", "renderPassDescriptor")
  /\ Create(<<<<"depthTexture",
                [size |-> [width |-> canvas.width, height |-> canvas.height],
                 format |-> "depth24plus-stencil8",
                 usage |-> {"RENDER_ATTACHMENT"}]>>>>)
  /\ UNCHANGED <<useWGSL, canvas, failures, aspect, projectionMatrix,
                 verticesData, image, frameCallback, renderPassDescriptor,
                 uniformData, frameVars>>

\* lines 134-150: the render pass descriptor, its colour attachment left
\* undefined, and the depth texture's view
RenderPassDescriptor ==
  /\ Step("renderPassDescriptor", "uniformBuffer")
  /\ Create(<<<<"depthView", [texture |-> objs["depthTexture"].id]>>>>)
  /\ renderPassDescriptor' =
       [colorAttachments |->
          <<[attachment |-> Undefined,
             loadValue |-> <<Half, Half, Half, Scale>>]>>,
        depthStencilAttachment |->
          [attachment |-> nextId, depthLoadValue |-> Scale,
           depthStoreOp |-> "store", stencilLoadValue |-> 0,
           stencilStoreOp |-> "store"]]
  /\ UNCHANGED <<useWGSL, canvas, failures, aspect, projectionMatrix,
                 verticesData, image, frameCallback, uniformData, frameVars>>

\* line 152: const uniformBufferSize
uniformBufferSize == 4 * 16

\* lines 153-156: the uniform buffer, zero-filled by the device
UniformBuffer ==
  /\ Step("uniformBuffer", "imgDecode")
  /\ Create(<<<<"uniformBuffer",
                [size |-> uniformBufferSize,
                 usage |-> {"UNIFORM", "COPY_DST"}]>>>>)
  /\ uniformData' = [b \in 0..(uniformBufferSize - 1) |->
                       [val |-> 0, part |-> b % Float32Bytes]]
  /\ uniformStamp' = [b \in 0..(uniformBufferSize - 1) |-> 0]
  /\ UNCHANGED <<useWGSL, canvas, failures, aspect, projectionMatrix,
                 verticesData, image, frameCallback, renderPassDescriptor,
                 framePc, now, transformationMatrix, pass, frameLog, counts,
                 attachments, shaded>>

\* a variant of ImgDecode: the decode is not awaited and the block that
\* uploads the texture and builds the bind group is left behind
ImgDecodeReturnsEarly ==
  /\ Step("imgDecode", "return")
  /\ NoCreate
  /\ UNCHANGED <<useWGSL, canvas, failures, aspect, projectionMatrix,
                 verticesData, image, frameCallback, renderPassDescriptor,
                 uniformData, frameVars>>

\* lines 160-162: await img.decode() resolves
ImgDecode ==
  /\ Step("imgDecode", "createImageBitmap")
  /\ NoCreate
  /\ UNCHANGED <<useWGSL, canvas, failures, aspect, projectionMatrix,
                 verticesData, image, frameCallback, renderPassDescriptor,
                 uniformData, frameVars>>

\* a variant of ImgDecodeRejects: the rejection is caught and init goes on
ImgDecodeRejectionCaught ==
  /\ Step("imgDecode", "createImageBitmap")
  /\ failures' = failures \cup {"imgDecode"}
  /\ NoCreate
  /\ UNCHANGED <<useWGSL, canvas, aspect, projectionMatrix, verticesData,
                 image, frameCallback, renderPassDescriptor, uniformData,
                 frameVars>>

\* line 162: it rejects
ImgDecodeRejects ==
  /\ Reject("imgDecode", "imgDecode")
  /\ NoCreate
  /\ UNCHANGED <<useWGSL, canvas, aspect, projectionMatrix, verticesData,
                 image, frameCallback, renderPassDescriptor, uniformData,
                 frameVars>>

\* line 163: await createImageBitmap(img) resolves with the decoded image
CreateImageBitmap ==
  /\ Step("createImageBitmap", "cubeTexture")
  /\ \E w \in 1..MaxDim, h \in 1..MaxDim :
       /\ h \in {1, w}
       /\ image' = [width |-> w, height |-> h,
                    pixels |-> ImagePixels(w, h), uploaded |-> FALSE]
  /\ NoCreate
  /\ UNCHANGED <<useWGSL, canvas, failures, aspect, projectionMatrix,
                 verticesData, frameCallback, renderPassDescriptor,
                 uniformData, frameVars>>

\* line 163: it rejects
CreateImageBitmapRejects ==
  /\ Reject("createImageBitmap", "createImageBitmap")
  /\ NoCreate
  /\ UNCHANGED <<useWGSL, canvas, aspect, projectionMatrix, verticesData,
                 image, frameCallback, renderPassDescriptor, uniformData,
                 frameVars>>

\* lines 165-174: the cube texture, and the copy of the image into it
CubeTexture ==
  /\ Step("cubeTexture", "sampler")
  /\ Create(<<<<"cubeTexture",
                [size |-> <<image.width, image.height, 1>>,
                 format |-> "rgba8unorm",
                 usage |-> {"SAMPLED", "COPY_DST"}]>>>>)
  /\ image' = [image EXCEPT !.uploaded = TRUE]
  /\ UNCHANGED <<useWGSL, canvas, failures, aspect, projectionMatrix,
                 verticesData, frameCallback, renderPassDescriptor,
                 uniformData, frameVars>>

\* lines 177-180: the sampler
Sampler ==
  /\ Step("sampler", "uniformBindGroup")
  /\ Create(<<<<"sampler", [magFilter |-> "linear",
                            minFilter |-> "linear"]>>>>)
  /\ UNCHANGED <<useWGSL, canvas, failures, aspect, projectionMatrix,
                 verticesData, image, frameCallback, renderPassDescriptor,
                 uniformData, frameVars>>

\* lines 182-200: the cube texture's view and the bind group, whose layout
\* pipeline.getBindGroupLayout(0) is the pipeline layout's first
UniformBindGroup ==
  /\ Step("uniformBindGroup", "return")
  /\ Create(<<<<"cubeView", [texture |-> objs["cubeTexture"].id]>>,
              <<"uniformBindGroup",
                [layout |-> objs["bindGroupLayout"].id,
                 entries |->
                   {[binding |-> 0, resource |-> objs["uniformBuffer"].id],
                    [binding |-> 1, resource |-> objs["sampler"].id],
                    [binding |-> 2, resource |-> nextId]}]>>>>)
  /\ UNCHANGED <<useWGSL, canvas, failures, aspect, projectionMatrix,
                 verticesData, image, frameCallback, renderPassDescriptor,
                 uniformData, frameVars>>

\* line 219: init returns the frame callback
ReturnFrame ==
  /\ Step("return", "ready")
  /\ frameCallback' = TRUE
  /\ NoCreate
  /\ UNCHANGED <<useWGSL, canvas, failures, aspect, projectionMatrix,
                 verticesData, image, renderPassDescriptor, uniformData,
                 frameVars>>

InitStep ==
  \/ RequestAdapter \/ RequestAdapterNull \/ RequestDeviceOfNull
  \/ RequestDevice \/ RequestDeviceRejects
  \/ GlslangModule \/ GlslangModuleRejects
  \/ ProjectionMatrix \/ ConfigureSwapChain \/ VerticesBuffer
  \/ BindGroupLayout \/ PipelineLayout
  \/ VertexModule \/ VertexModuleGlslThrows \/ VertexModuleWgslInvalid
  \/ FragmentModule \/ FragmentModuleGlslThrows \/ FragmentModuleWgslInvalid
  \/ Pipeline \/ DepthTexture \/ RenderPassDescriptor \/ UniformBuffer
  \/ ImgDecode \/ ImgDecodeRejects
  \/ CreateImageBitmap \/ CreateImageBitmapRejects
  \/ CubeTexture \/ Sampler \/ UniformBindGroup \/ ReturnFrame

(* -------------------------------- frame ------------------------------- *)
\* frame() is synchronous: once called it runs to its end, one call after
\* the other, before anything else happens.

Call(op, args) == [op |-> op, args |-> args]

\* lines 203-211: viewMatrix once now = Date.now() / 1000 is t
ViewMatrix(t) ==
  LET viewMatrix0 == Mat4Create
      viewMatrix1 == Mat4Translate(viewMatrix0, <<0, 0, -4>>)
  IN  Mat4Rotate(viewMatrix1, <<Sin(t), Cos(t), 0>>)

\* ViewMatrix tabulated over the clock's values
ViewMatrixAt == [t \in Times |-> ViewMatrix(t)]

\* a variant of getTransformationMatrix: mat4.multiply writes its product
\* into the captured projection matrix
getTransformationMatrixInPlace(projection, t) ==
  LET modelViewProjectionMatrix == Mat4Multiply(projection, ViewMatrixAt[t])
  IN  [result |-> modelViewProjectionMatrix,
       projection |-> modelViewProjectionMatrix]

\* lines 202-217: getTransformationMatrix() reading Date.now() / 1000 = t.
\* The result is a fresh matrix; projection is the captured matrix after the
\* call, which mat4.multiply reads and does not write.
getTransformationMatrix(projection, t) ==
  LET modelViewProjectionMatrix == Mat4Multiply(projection, ViewMatrixAt[t])
  IN  [result |-> modelViewProjectionMatrix, projection |-> projection]

\* the bytes of a Float32Array's buffer: byte b is part b % 4 of a float
ArrayBuffer(floats) ==
  [b \in 0..(ByteLength(floats) - 1) |->
     [val |-> floats[(b \div Float32Bytes) + 1], part |-> b % Float32Bytes]]

\* line 219-220: frame() is called and computes the matrix
GetTransformationMatrix ==
  /\ frameCallback
  /\ framePc = "idle"
  /\ counts.frames < MaxFrames
  /\ \E t \in Times :
       LET r == getTransformationMatrix(projectionMatrix, t)
       IN  /\ now' = t
           /\ transformationMatrix' = r.result
           /\ projectionMatrix' = r.projection
           /\ frameLog' = <<Call("getTransformationMatrix", <<t>>)>>
  /\ counts' = [counts EXCEPT !.frames = @ + 1]
  /\ framePc' = "writeBuffer"
  /\ pass' = NoPass
  /\ shaded' = NoObj
  /\ UNCHANGED <<useWGSL, canvas, pc, initLog, failures, objs, created,
                 nextId, aspect, verticesData, image, frameCallback,
                 renderPassDescriptor, uniformData, uniformStamp,
                 attachments>>

\* a variant of WriteBufferArgs: the size is given in elements
WriteBufferArgsInElements(matrix) ==
  [bufferOffset |-> 0, dataOffset |-> 0, size |-> Len(matrix)]

\* lines 221-227: the arguments of device.queue.writeBuffer after the buffer:
\* bufferOffset, then dataOffset and size in bytes of the ArrayBuffer
WriteBufferArgs(matrix) ==
  [bufferOffset |-> 0, dataOffset |-> 0, size |-> ByteLength(matrix)]

\* GPUQueue.writeBuffer validates the two ranges and throws when either
\* leaves its buffer
WriteBufferValid(bufferSize, dataSize, a) ==
  /\ a.bufferOffset + a.size <= bufferSize
  /\ a.dataOffset + a.size <= dataSize

\* lines 221-227: the write of the matrix into the uniform buffer
WriteBuffer ==
  /\ framePc = "writeBuffer"
  /\ LET a == WriteBufferArgs(transformationMatrix)
         data == ArrayBuffer(transformationMatrix)
         ok == WriteBufferValid(objs["uniformBuffer"].size,
                                ByteLength(transformationMatrix), a)
         Written(b) == a.bufferOffset <= b /\ b < a.bufferOffset + a.size
     IN  /\ uniformData' =
              IF ok
              THEN [b \in DOMAIN uniformData |->
                      IF Written(b)
                      THEN data[a.dataOffset + (b - a.bufferOffset)]
                      ELSE uniformData[b]]
              ELSE uniformData
         /\ uniformStamp' =
              IF ok
              THEN [b \in DOMAIN uniformStamp |->
                      IF Written(b) THEN counts.frames
                      ELSE uniformStamp[b]]
              ELSE uniformStamp
         /\ counts' = IF ok THEN [counts EXCEPT !.writes = @ + 1] ELSE counts
         /\ frameLog' =
              Append(frameLog,
                     IF ok
                     THEN Call("writeBuffer",
                               <<objs["uniformBuffer"].id, a.bufferOffset,
                                 a.dataOffset, a.size>>)
                     ELSE Call("throw", <<>>))
         /\ framePc' = IF ok THEN "colorAttachment" ELSE "idle"
  /\ UNCHANGED <<initVars, renderPassDescriptor, now, transformationMatrix,
                 pass, attachments, shaded>>

\* a variant of ColorAttachment: the view is acquired only while the slot
\* is undefined
ColorAttachmentOnce ==
  /\ framePc = "colorAttachment"
  /\ LET old == renderPassDescriptor.colorAttachments[1].attachment
         view == IF old = Undefined
                 THEN [id |-> nextId, texture |-> counts.frames,
                       frame |-> counts.frames]
                 ELSE old
     IN  /\ renderPassDescriptor' =
              [renderPassDescriptor EXCEPT
                 !.colorAttachments[1].attachment = view]
         /\ frameLog' = Append(frameLog, Call("colorAttachment", <<view.id>>))
  /\ nextId' = nextId + 1
  /\ framePc' = "createCommandEncoder"
  /\ UNCHANGED <<useWGSL, canvas, pc, initLog, failures, objs, created,
                 aspect, projectionMatrix, verticesData, image, frameCallback,
                 uniformData, now, transformationMatrix, pass, counts,
                 uniformStamp, attachments, shaded>>

\* lines 228-230: a new view of the swap chain's current texture becomes
\* the colour attachment; the host presents one texture per frame
ColorAttachment ==
  /\ framePc = "colorAttachment"
  /\ LET view == [id |-> nextId, texture |-> counts.frames,
                  frame |-> counts.frames]
     IN  /\ renderPassDescriptor' =
              [renderPassDescriptor EXCEPT
                 !.colorAttachments[1].attachment = view]
         /\ frameLog' = Append(frameLog, Call("colorAttachment", <<view.id>>))
  /\ nextId' = nextId + 1
  /\ framePc' = "createCommandEncoder"
  /\ UNCHANGED <<useWGSL, canvas, pc, initLog, failures, objs, created,
                 aspect, projectionMatrix, verticesData, image, frameCallback,
                 uniformData, now, transformationMatrix, pass, counts,
                 uniformStamp, attachments, shaded>>

\* line 232: a new command encoder
CreateCommandEncoder ==
  /\ framePc = "createCommandEncoder"
  /\ pass' = [NoPass EXCEPT !.state = "encoder"]
  /\ frameLog' = Append(frameLog, Call("createCommandEncoder", <<>>))
  /\ framePc' = "beginRenderPass"
  /\ UNCHANGED <<initVars, renderPassDescriptor, uniformData, now,
                 transformationMatrix, counts, uniformStamp, attachments,
                 shaded>>

\* line 233: the render pass begins with the descriptor as it is now
BeginRenderPass ==
  /\ framePc = "beginRenderPass"
  /\ pass' = [pass EXCEPT
                !.state = "open",
                !.colorAttachment =
                  renderPassDescriptor.colorAttachments[1].attachment,
                !.depthAttachment =
                  renderPassDescriptor.depthStencilAttachment.attachment]
  /\ frameLog' =
       Append(frameLog,
              Call("beginRenderPass",
                   <<renderPassDescriptor.colorAttachments[1].attachment.id>>))
  /\ framePc' = "setPipeline"
  /\ UNCHANGED <<initVars, renderPassDescriptor, uniformData, now,
                 transformationMatrix, counts, uniformStamp, attachments,
                 shaded>>

\* line 234
SetPipeline ==
  /\ framePc = "setPipeline"
  /\ pass' = [pass EXCEPT !.pipeline = objs["pipeline"].id]
  /\ frameLog' = Append(frameLog, Call("setPipeline", <<objs["pipeline"].id>>))
  /\ framePc' = "setBindGroup"
  /\ UNCHANGED <<initVars, renderPassDescriptor, uniformData, now,
                 transformationMatrix, counts, uniformStamp, attachments,
                 shaded>>

\* a variant of SetBindGroup: the bind group is built again in every frame
SetBindGroupRebuilt ==
  /\ framePc = "setBindGroup"
  /\ Create(<<<<"uniformBindGroup",
                [layout |-> objs["bindGroupLayout"].id,
                 entries |-> objs["uniformBindGroup"].entries]>>>>)
  /\ pass' = [pass EXCEPT !.bindGroup = nextId]
  /\ frameLog' = Append(frameLog, Call("setBindGroup", <<0, nextId>>))
  /\ framePc' = "setVertexBuffer"
  /\ UNCHANGED <<useWGSL, canvas, pc, initLog, failures, aspect,
                 projectionMatrix, verticesData, image, frameCallback,
                 renderPassDescriptor, uniformData, now,
                 transformationMatrix, counts, uniformStamp, attachments,
                 shaded>>

\* line 235
SetBindGroup ==
  /\ framePc = "setBindGroup"
  /\ pass' = [pass EXCEPT !.bindGroup = objs["uniformBindGroup"].id]
  /\ frameLog' =
       Append(frameLog,
              Call("setBindGroup", <<0, objs["uniformBindGroup"].id>>))
  /\ framePc' = "setVertexBuffer"
  /\ UNCHANGED <<initVars, renderPassDescriptor, uniformData, now,
                 transformationMatrix, counts, uniformStamp, attachments,
                 shaded>>

\* line 236
SetVertexBuffer ==
  /\ framePc = "setVertexBuffer"
  /\ pass' = [pass EXCEPT !.vertexBuffer = objs["verticesBuffer"].id]
  /\ frameLog' =
       Append(frameLog,
              Call("setVertexBuffer", <<0, objs["verticesBuffer"].id>>))
  /\ framePc' = "draw"
  /\ UNCHANGED <<initVars, renderPassDescriptor, uniformData, now,
                 transformationMatrix, counts, uniformStamp, attachments,
                 shaded>>

\* a variant of DrawArgs: the count of triangles for the count of vertices
DrawArgsTriangles == <<12, 1, 0, 0>>

\* line 237: vertexCount, instanceCount, firstVertex, firstInstance
DrawArgs == <<36, 1, 0, 0>>

\* line 237
Draw ==
  /\ framePc = "draw"
  /\ pass' = [pass EXCEPT !.draws = Append(@, DrawArgs)]
  /\ frameLog' = Append(frameLog, Call("draw", DrawArgs))
  /\ counts' = [counts EXCEPT !.draws = @ + 1]
  /\ framePc' = "endPass"
  /\ UNCHANGED <<initVars, renderPassDescriptor, uniformData, now,
                 transformationMatrix, uniformStamp, attachments, shaded>>

\* line 238
EndPass ==
  /\ framePc = "endPass"
  /\ pass' = [pass EXCEPT !.state = "ended"]
  /\ frameLog' = Append(frameLog, Call("endPass", <<>>))
  /\ framePc' = "submit"
  /\ UNCHANGED <<initVars, renderPassDescriptor, uniformData, now,
                 transformationMatrix, counts, uniformStamp, attachments,
                 shaded>>

\* the number of float32 components of a vertex format
FormatFloats(format) == IF format = "float32x4" THEN 4 ELSE 2

\* the byte range [first, last) vertex v's attribute occupies in the buffer
AttributeRange(layout, attribute, v) ==
  LET first == v * layout.arrayStride + attribute.offset
  IN  [first |-> first,
       last |-> first + FormatFloats(attribute.format) * Float32Bytes]

\* the vertex indices a non-indexed draw reads
DrawnVertices(draw) == draw[3]..(draw[3] + draw[1] - 1)

\* the matrix a shader reads from the uniform buffer's bytes
UniformMatrix ==
  [n \in 1..Mat4Length |-> uniformData[(n - 1) * Float32Bytes].val]

\* what the pipeline computes for vertex v and the fragment at it: the
\* vertex fetch by the pipeline's buffer layout (a read past the end of the
\* buffer yields 0), the vertex stage, and the fragment stage on its outputs
Shade(v) ==
  LET pipeline == objs["pipeline"]
      layout == pipeline.vertex.buffers[1]
      Fetch(attribute) ==
        LET r == AttributeRange(layout, attribute, v)
        IN  [k \in 1..FormatFloats(attribute.format) |->
               IF r.first + k * Float32Bytes <= objs["verticesBuffer"].size
               THEN verticesData[(r.first \div Float32Bytes) + k]
               ELSE 0]
      in == [loc \in 1..Len(layout.attributes) |->
               Fetch(CHOOSE a \in {layout.attributes[k] :
                                     k \in 1..Len(layout.attributes)} :
                       a.shaderLocation = loc - 1)]
      vs == VertexMain(pipeline.vertex.dialect, UniformMatrix, in)
      fs == FragmentMain(pipeline.fragment.dialect, image, vs.out)
  IN  [in |-> in, mvp |-> UniformMatrix, vs |-> vs, fs |-> fs]

\* lines 239: finish() and submit().  The queue executes the pass when it is
\* valid: it clears and stores both attachments and shades the drawn
\* vertices.  An invalid pipeline makes the command buffer invalid: the
\* submit is still made, and the device records a validation error.
Submit ==
  /\ framePc = "submit"
  /\ frameLog' = Append(frameLog, Call("submit", <<1>>))
  /\ counts' = [counts EXCEPT !.submits = @ + 1]
  /\ framePc' = "idle"
  /\ pass' = [pass EXCEPT !.state = "submitted"]
  /\ UNCHANGED <<initVars, renderPassDescriptor, uniformData, now,
                 transformationMatrix, uniformStamp>>
  /\ IF /\ objs["pipeline"].valid
        /\ pass.state = "ended"
        /\ pass.colorAttachment # Undefined
        /\ pass.pipeline = objs["pipeline"].id
        /\ Len(pass.draws) > 0
     THEN /\ attachments' = [depth |-> counts.frames,
                             color |-> pass.colorAttachment.texture]
          /\ \E v \in DrawnVertices(pass.draws[1]) : shaded' = Shade(v)
     ELSE UNCHANGED <<attachments, shaded>>

FrameStep ==
  \/ GetTransformationMatrix \/ WriteBuffer \/ ColorAttachment
  \/ CreateCommandEncoder \/ BeginRenderPass \/ SetPipeline \/ SetBindGroup
  \/ SetVertexBuffer \/ Draw \/ EndPass \/ Submit

Next == InitStep \/ FrameStep

Spec == Init /\ [][Next]_vars


(* ------------------------------- claims ------------------------------- *)

\* the objects the claims call GPU-side
GpuObjects ==
  {"swapChain", "verticesBuffer", "bindGroupLayout", "pipelineLayout",
   "pipeline", "depthTexture", "depthView", "uniformBuffer", "cubeTexture",
   "cubeView", "sampler", "uniformBindGroup"}

\* every setup step of init is done
SetupDone ==
  /\ \A n \in GpuObjects \cup {"device"} : objs[n] # NoObj
  /\ objs["verticesBuffer"].mapState = "unmapped"
  /\ verticesData = cubeVertexArray
  /\ image # NoObj /\ image.uploaded
  /\ renderPassDescriptor # NoObj
  /\ DOMAIN uniformData = 0..(objs["uniformBuffer"].size - 1)

\* a render pass is being recorded or has been submitted
PassRecorded ==
  framePc # "idle" \/ pass.state # "none" \/ counts.submits > 0
    \/ counts.draws > 0 \/ frameLog # <<>>

Ops(log) == [k \in 1..Len(log) |-> log[k].op]

\* C1: the frame callback exists only once every setup step of init is done,
\* no render pass is recorded or submitted before that, and once the
\* renderer is ready every step of every frame() call leaves it ready: init
\* stays returned, the callback stays, and no frame() call throws.
C1_ReadyOnlyAfterSetup ==
  /\ [](/\ frameCallback <=> pc = "ready"
        /\ frameCallback => SetupDone
        /\ PassRecorded => frameCallback /\ SetupDone
        /\ \A k \in 1..Len(frameLog) : frameLog[k].op # "throw")
  /\ [][frameCallback => frameCallback' /\ pc' = "ready" /\ SetupDone']_vars

C1_Witness ==
  frameCallback /\ framePc = "idle" /\ counts.submits = 2

\* the render pass descriptor but for its colour attachment slot
DescriptorButColor(d) ==
  IF d = NoObj THEN d
  ELSE [d EXCEPT !.colorAttachments[1].attachment = Undefined]

\* each object is constructed at most once, and exactly once by a finished init
ConstructedOnce ==
  /\ \A n \in ObjNames : created[n] <= 1 /\ (created[n] = 1 <=> objs[n] # NoObj)
  /\ frameCallback => \A n \in GpuObjects : created[n] = 1

\* after init has returned, the objects, their configurations and the
\* contents the frame callback does not write stay as they are
ObjectsKept ==
  frameCallback =>
    /\ objs' = objs
    /\ created' = created
    /\ verticesData' = verticesData
    /\ image' = image
    /\ DOMAIN uniformData' = DOMAIN uniformData
    /\ DescriptorButColor(renderPassDescriptor')
         = DescriptorButColor(renderPassDescriptor)

\* C2 as stated: every object of init is constructed exactly once and kept,
\* and frame() changes nothing but the contents of the uniform buffer and
\* the colour attachment slot of the render pass descriptor.
C2_OnlyUniformAndColorSlotChange ==
  /\ []ConstructedOnce
  /\ [][ObjectsKept /\ (frameCallback => attachments' = attachments)]_vars

\* C2 as amended: every object of init is constructed exactly once, during
\* init, and kept with its configuration by every frame() call; frame()
\* changes the contents of the uniform buffer, the colour attachment slot
\* and, through the pass it submits, the contents of the pass's attachments
\* (the depth texture and the swap chain's current texture), and nothing
\* else of what init built.
C2_ObjectsConstructedOnceAndKept ==
  /\ []ConstructedOnce
  /\ [][ObjectsKept]_vars

C2_Witness ==
  /\ frameCallback /\ framePc = "idle" /\ counts.submits = 2
  /\ attachments.depth = 2
  /\ renderPassDescriptor.colorAttachments[1].attachment # Undefined

\* the write a frame() call makes, as logged
WritesIn(log) == {k \in 1..Len(log) : log[k].op = "writeBuffer"}

\* the uniform buffer holds exactly the running call's matrix, every byte
\* of it written by this call
UniformFullyWritten ==
  /\ Cardinality(WritesIn(frameLog)) = 1
  /\ \A k \in WritesIn(frameLog) :
       frameLog[k].args = <<objs["uniformBuffer"].id, 0, 0, 64>>
  /\ \A b \in 0..63 :
       /\ uniformStamp[b] = counts.frames
       /\ uniformData[b] = ArrayBuffer(transformationMatrix)[b]

\* C3: the uniform buffer has size 64, and every frame() call writes it
\* exactly once, at offset 0 with length 64, inside the buffer; after the
\* write no byte holds a value an earlier frame wrote.
C3_UniformBufferFullyOverwritten ==
  /\ objs["uniformBuffer"] # NoObj =>
       /\ objs["uniformBuffer"].size = 64
       /\ DOMAIN uniformData = 0..63
  /\ counts.writes <= counts.frames
  /\ (counts.frames > 0 /\ framePc # "writeBuffer") =>
       /\ UniformFullyWritten
       /\ counts.writes = counts.frames
  /\ framePc = "writeBuffer" => counts.writes = counts.frames - 1

C3_Witness ==
  /\ counts.frames = 2 /\ counts.writes = 2 /\ framePc = "colorAttachment"
  /\ now # 0

\* the steps of one frame() call, in order
FrameOps ==
  <<"getTransformationMatrix", "writeBuffer", "colorAttachment",
    "createCommandEncoder", "beginRenderPass", "setPipeline", "setBindGroup",
    "setVertexBuffer", "draw", "endPass", "submit">>

CountOf(log, op) == Cardinality({k \in 1..Len(log) : log[k].op = op})

\* C4: every frame() call makes its calls in the order of FrameOps, each
\* once: the uniform write first, then the colour attachment, one render
\* pass with the pipeline, bind group 0 and vertex buffer 0 set, one draw of
\* 36 vertices and 1 instance from vertex 0 and instance 0, the end of the
\* pass, and one submit of one command buffer; after n calls there have been
\* n draws and n submits, and a frame's write precedes its submit.
C4_FrameStepsInOrder ==
  /\ Len(frameLog) <= Len(FrameOps)
  /\ Ops(frameLog) = SubSeq(FrameOps, 1, Len(frameLog))
  /\ framePc = "idle" => Len(frameLog) \in {0, Len(FrameOps)}
  /\ framePc # "idle" => framePc = FrameOps[Len(frameLog) + 1]
  /\ counts.frames > 0 =>
       /\ counts.writes = counts.frames - 1 + CountOf(frameLog, "writeBuffer")
       /\ counts.draws = counts.frames - 1 + CountOf(frameLog, "draw")
       /\ counts.submits = counts.frames - 1 + CountOf(frameLog, "submit")
  /\ counts.submits <= counts.writes
  /\ \A k \in 1..Len(frameLog) :
       /\ frameLog[k].op = "draw" => frameLog[k].args = <<36, 1, 0, 0>>
       /\ frameLog[k].op = "submit" => frameLog[k].args = <<1>>
       /\ frameLog[k].op = "setPipeline" =>
            frameLog[k].args = <<objs["pipeline"].id>>
       /\ frameLog[k].op = "setBindGroup" =>
            frameLog[k].args = <<0, objs["uniformBindGroup"].id>>
       /\ frameLog[k].op = "setVertexBuffer" =>
            frameLog[k].args = <<0, objs["verticesBuffer"].id>>
  /\ framePc = "idle" =>
       /\ counts.draws = counts.frames
       /\ counts.submits = counts.frames
       /\ counts.writes = counts.frames

C4_Witness ==
  framePc = "idle" /\ counts.frames = 3 /\ counts.draws = 3
    /\ counts.submits = 3 /\ Len(frameLog) = 11

\* the failures that make a statement of init throw or a promise it awaits
\* reject
ThrowingFailures ==
  failures \cap {"noAdapter", "requestDevice", "glslangModule", "glslCompile",
                 "imgDecode", "createImageBitmap"}

NoStepTwice ==
  \A j, k \in 1..Len(initLog) : initLog[j] = initLog[k] => j = k

\* after the failures in `failed`: no callback, no pass, no submit
NothingAfter(failed) ==
  failed # {} =>
    /\ ~frameCallback
    /\ pc # "ready"
    /\ framePc = "idle" /\ pass = NoPass
    /\ counts.submits = 0 /\ counts.draws = 0

\* after the failures in `failed` no setup step constructs anything more
NoLaterStep(failed) ==
  failed # {} =>
    /\ objs' = objs /\ created' = created
    /\ pc' \in {pc, "rejected"}
    /\ ~frameCallback'

\* C5 as stated: after any failure of an initialization step, a shader
\* that does not compile included, init returns no frame callback, repeats
\* no step, runs no later setup step, and no render pass is submitted.
C5_AnyFailureStopsInit ==
  /\ [](NoStepTwice /\ NothingAfter(failures))
  /\ [][NoLaterStep(failures)]_vars

\* C5 as amended: after a failure that throws or rejects (no adapter, the
\* device request, the shader compiler module, a GLSL compilation, the image
\* decode, the bitmap creation) init returns no frame callback, runs no
\* later setup step, and no render pass is submitted; no step is repeated
\* after any failure.  A WGSL shader that does not compile throws nothing:
\* init goes on to return the callback.
C5_ThrowingFailureStopsInit ==
  /\ [](NoStepTwice /\ NothingAfter(ThrowingFailures))
  /\ [][NoLaterStep(ThrowingFailures)]_vars

C5_Witness ==
  /\ failures = {"imgDecode"} /\ pc = "rejected"
  /\ objs["pipeline"] # NoObj /\ objs["cubeTexture"] = NoObj
  /\ ~frameCallback

\* the aspect ratio init computes from the canvas
AspectOf(c) == Abs(FDiv(c.width * Scale, c.height * Scale))

\* the matrix of a frame as a function of the canvas and the time alone,
\* tabulated over the canvases and the clock's values
MatrixTable ==
  [c \in [width : 1..MaxDim, height : 1..MaxDim] |->
     [t \in Times |->
        Mat4Multiply(Mat4Perspective(AspectOf(c), 1, 100), ViewMatrix(t))]]

MatrixOf(c, t) == MatrixTable[c][t]

\* C6: the matrix a frame() call computes and writes to the uniform buffer
\* is a function of the time that call read and of the aspect ratio alone,
\* whatever frames were called before; the projection matrix stays the one
\* init computed.
C6_MatrixFunctionOfTimeAndAspect ==
  /\ projectionMatrix # <<>> =>
       projectionMatrix = Mat4Perspective(AspectOf(canvas), 1, 100)
  /\ counts.frames > 0 => transformationMatrix = MatrixOf(canvas, now)
  /\ (counts.frames > 0 /\ framePc # "writeBuffer") =>
       UniformMatrix = MatrixOf(canvas, now)

\* the second frame has read a time other than the first frame's, whose
\* matrix the uniform buffer still holds
C6_Witness ==
  /\ counts.frames = 2 /\ framePc = "writeBuffer"
  /\ UniformMatrix # transformationMatrix

\* every attribute of every vertex a recorded draw reads lies in the buffer
DrawReadsInside ==
  pass.draws # <<>> =>
    LET layout == objs["pipeline"].vertex.buffers[1]
        size == objs["verticesBuffer"].size
    IN  \A d \in 1..Len(pass.draws), a \in 1..Len(layout.attributes) :
          \A v \in DrawnVertices(pass.draws[d]) :
            /\ 0 <= AttributeRange(layout, layout.attributes[a], v).first
            /\ AttributeRange(layout, layout.attributes[a], v).last <= size

\* C7: the vertex buffer is 36 strides long, the stride being 16 bytes of
\* position and 8 of UV: 864 bytes; the draw of 36 vertices reads only bytes
\* inside it.
C7_VertexBufferCoversDraw ==
  /\ objs["verticesBuffer"] # NoObj =>
       /\ objs["verticesBuffer"].size = 36 * cubeVertexSize
       /\ objs["verticesBuffer"].size = 864
       /\ Len(verticesData) * Float32Bytes = 864
  /\ objs["pipeline"] # NoObj =>
       LET layout == objs["pipeline"].vertex.buffers[1]
       IN  /\ layout.arrayStride = 24
           /\ layout.arrayStride =
                FormatFloats(layout.attributes[1].format) * Float32Bytes
                  + FormatFloats(layout.attributes[2].format) * Float32Bytes
           /\ layout.attributes[1].offset = 0
           /\ layout.attributes[2].offset = 16
  /\ DrawReadsInside

\* the last vertex's UV ends on the last byte of the buffer
C7_Witness ==
  /\ Len(pass.draws) = 1 /\ framePc = "endPass"
  /\ \E v \in DrawnVertices(pass.draws[1]) :
       AttributeRange(objs["pipeline"].vertex.buffers[1],
                      objs["pipeline"].vertex.buffers[1].attributes[2],
                      v).last = objs["verticesBuffer"].size

FlagDialect == IF useWGSL THEN "wgsl" ELSE "glsl"

\* C8: both stages of the pipeline come from the dialect table the flag
\* selects, each module is made once, and no later step changes the flag,
\* the modules or the pipeline.
C8_OneDialectForBothStages ==
  /\ [](/\ created["vertexModule"] <= 1 /\ created["fragmentModule"] <= 1
        /\ objs["vertexModule"] # NoObj =>
             objs["vertexModule"].dialect = FlagDialect
        /\ objs["fragmentModule"] # NoObj =>
             objs["fragmentModule"].dialect = FlagDialect
        /\ objs["pipeline"] # NoObj =>
             /\ objs["pipeline"].vertex.dialect = FlagDialect
             /\ objs["pipeline"].fragment.dialect
                  = objs["pipeline"].vertex.dialect
             /\ objs["pipeline"].vertex.module = objs["vertexModule"].id
             /\ objs["pipeline"].fragment.module = objs["fragmentModule"].id)
  /\ [][/\ useWGSL' = useWGSL
        /\ objs["pipeline"] # NoObj =>
             /\ objs'["pipeline"] = objs["pipeline"]
             /\ objs'["vertexModule"] = objs["vertexModule"]
             /\ objs'["fragmentModule"] = objs["fragmentModule"]]_vars

C8_Witness ==
  /\ useWGSL /\ counts.submits = 2
  /\ objs["pipeline"].vertex.dialect = "wgsl"
  /\ objs["pipeline"].fragment.dialect = "wgsl"

\* C9: on the matrix, vertex and image of an executed pass the two dialects
\* agree: the vertex stages emit matrix * position, the UV at location 0
\* and 0.5 * (position + 1) at location 1, the fragment stages emit the
\* texel sampled at the UV times the pseudo-colour, and the stages declare
\* the same bindings (0 uniform, 1 sampler, 2 texture, all in set 0) and
\* locations.
C9_DialectsAgree ==
  /\ GlslVertexInterface = WgslVertexInterface
  /\ GlslFragmentInterface = WgslFragmentInterface
  /\ {<<u.set, u.binding, u.kind>> :
        u \in WgslVertexInterface.uniforms \cup WgslFragmentInterface.uniforms}
       = {<<0, 0, "uniform">>, <<0, 1, "sampler">>, <<0, 2, "texture">>}
  /\ shaded # NoObj =>
       LET position == shaded.in[1]
           uv == shaded.in[2]
           glslV == GlslVertexMain(shaded.mvp, shaded.in)
           wgslV == WgslVertexMain(shaded.mvp, shaded.in)
           pseudo == [k \in 1..4 |-> FMul(Half, position[k] + Scale)]
           color == [k \in 1..4 |->
                       FMul(TextureSample(image, uv)[k], pseudo[k])]
       IN  /\ glslV = wgslV
           /\ wgslV.position = Mat4TimesVec4(shaded.mvp, position)
           /\ wgslV.out = <<uv, pseudo>>
           /\ GlslFragmentMain(image, glslV.out)
                = WgslFragmentMain(image, wgslV.out)
           /\ WgslFragmentMain(image, wgslV.out).out = <<color>>
           /\ shaded.vs = wgslV
           /\ shaded.fs.out = <<color>>

\* a vertex whose pseudo-colour and texel give a colour that is not black
C9_Witness ==
  /\ shaded # NoObj
  /\ shaded.in[1] = <<Scale, Scale, -Scale, Scale>>
  /\ shaded.fs.out[1][1] > 0
  /\ shaded.mvp # [n \in 1..Mat4Length |-> 0]

\* C10: the descriptor is created with an undefined colour attachment, and
\* every render pass begins with a colour attachment that is a view acquired
\* earlier in the same frame() call, never an undefined one and never the
\* view of an earlier frame.
C10_PassBeginsWithThisFramesView ==
  /\ (renderPassDescriptor # NoObj /\ counts.frames = 0) =>
       renderPassDescriptor.colorAttachments[1].attachment = Undefined
  /\ pass.state \in {"open", "ended", "submitted"} =>
       /\ pass.colorAttachment # Undefined
       /\ pass.colorAttachment.frame = counts.frames
       /\ pass.colorAttachment
            = renderPassDescriptor.colorAttachments[1].attachment
  /\ \A k \in 1..Len(frameLog) :
       frameLog[k].op = "beginRenderPass" =>
         /\ frameLog[k].args # <<0>>
         /\ \E j \in 1..(k - 1) :
              /\ frameLog[j].op = "colorAttachment"
              /\ frameLog[j].args = frameLog[k].args

C10_Witness ==
  /\ counts.frames = 2 /\ framePc = "setPipeline" /\ pass.state = "open"
  /\ pass.colorAttachment.frame = 2

=============================================================================
